---- MODULE Spec2Model ----
(***************************************************************************)
(* Model of the ai-shorts orchestrator: the script validator of            *)
(* node/src/generate.ts, the worker executor of node/src/index.ts and the  *)
(* pipeline runner (FullPipeline, main) that sequences them.               *)
(***************************************************************************)
EXTENDS Integers, Sequences, FiniteSets, TLC

(***************************************************************************)
(* JavaScript values as they come out of JSON.parse: a value carries its   *)
(* typeof tag; s is the text of a string, n the value of a number.         *)
(***************************************************************************)
Str(s) == [t |-> "string", s |-> s, n |-> 0]
Num(n) == [t |-> "number", s |-> "", n |-> n]
Undefined == [t |-> "undefined", s |-> "", n |-> 0]

TypeOf(v) == v.t

\* JavaScript truthiness: "", 0 and undefined are falsy.
Truthy(v) ==
  CASE v.t = "string" -> v.s # ""
    [] v.t = "number" -> v.n # 0
    [] OTHER -> FALSE

\* Array.isArray(scenes): a scenes value that is no array has no items.
ArrayOf(items) == [isArray |-> TRUE, items |-> items]
NotAnArray == [isArray |-> FALSE, items |-> <<>>]

(***************************************************************************)
(* The errors validateScript throws, named as the specification names      *)
(* them; msg is the fixed part of the message the code builds, index the   *)
(* 0-based scene index the message names, detail the text it quotes.       *)
(***************************************************************************)
NoIndex == -1
Failure(msg, index, detail) == [msg |-> msg, index |-> index, detail |-> detail]
Ok == Failure("", NoIndex, <<>>)
MissingTitle == Failure("Invalid or missing title", NoIndex, <<>>)
InvalidDuration == Failure("Duration must be a positive number", NoIndex, <<>>)
EmptySceneList == Failure("Scenes must be a non-empty array", NoIndex, <<>>)
SceneNotNumbers(i) == Failure("start and end must be numbers", i, <<>>)
InvalidSceneTiming(i) == Failure("invalid timing", i, <<>>)
SceneVoice(i) == Failure("voice must be a non-empty string", i, <<>>)
SceneOverlay(i) == Failure("overlay must be a non-empty string", i, <<>>)
SceneOverlap(i) == Failure("overlaps with previous scene", i, <<>>)

\* Mutants of the timing test: the end compared with >=, the upper limit
\* left out, the start-before-end test left out.
SceneTimingBadStrictEnd(scene, duration) ==
  \/ scene.start.n < 0
  \/ scene.end.n >= duration.n
  \/ scene.start.n >= scene.end.n
SceneTimingBadNoUpper(scene, duration) ==
  \/ scene.start.n < 0
  \/ scene.start.n >= scene.end.n
SceneTimingBadNoOrder(scene, duration) ==
  \/ scene.start.n < 0
  \/ scene.end.n > duration.n

\* The body of the forEach callback for one scene (index is 0-based).
SceneTimingBad(scene, duration) ==
  \/ scene.start.n < 0
  \/ scene.end.n > duration.n
  \/ scene.start.n >= scene.end.n

SceneVoiceBad(scene) ==
  ~Truthy(scene.voice) \/ TypeOf(scene.voice) # "string"

SceneCheck(scene, index, duration) ==
  IF TypeOf(scene.start) # "number" \/ TypeOf(scene.end) # "number"
    THEN SceneNotNumbers(index)
  ELSE IF SceneTimingBad(scene, duration)
    THEN InvalidSceneTiming(index)
  ELSE IF SceneVoiceBad(scene)
    THEN SceneVoice(index)
  ELSE IF ~Truthy(scene.overlay) \/ TypeOf(scene.overlay) # "string"
    THEN SceneOverlay(index)
  ELSE Ok

\* scenes.forEach: the first scene whose callback throws ends the loop.
RECURSIVE SceneLoop(_, _, _)
SceneLoop(items, k, duration) ==
  IF k > Len(items) THEN Ok
  ELSE LET r == SceneCheck(items[k], k - 1, duration)
       IN IF r # Ok THEN r ELSE SceneLoop(items, k + 1, duration)

\* Mutant of the overlap comparison: touching scenes count as overlapping.
OverlapsInclusive(cur, prev) == cur.start.n <= prev.end.n

\* The comparison of the overlap scan.
Overlaps(cur, prev) == cur.start.n < prev.end.n

\* for (let i = 1; i < scenes.length; i++): k is i + 1 (sequences are 1-based).
RECURSIVE OverlapLoop(_, _)
OverlapLoop(items, k) ==
  IF k > Len(items) THEN Ok
  ELSE IF Overlaps(items[k], items[k - 1]) THEN SceneOverlap(k - 1)
  ELSE OverlapLoop(items, k + 1)

TitleBad(script) ==
  ~Truthy(script.title) \/ TypeOf(script.title) # "string"

\* Mutant of the duration test: 0 passes.
DurationBadNegativeOnly(script) ==
  TypeOf(script.duration_seconds) # "number" \/ script.duration_seconds.n < 0

DurationBad(script) ==
  TypeOf(script.duration_seconds) # "number" \/ script.duration_seconds.n <= 0

\* Mutant of the scene-list test: an empty array passes.
ScenesBadNoLength(script) == ~script.scenes.isArray

ScenesBad(script) ==
  ~script.scenes.isArray \/ Len(script.scenes.items) = 0

\* Mutant of validateScript: the duration is tested before the title.
validateScriptDurationFirst(script) ==
  IF DurationBad(script) THEN InvalidDuration
  ELSE IF TitleBad(script) THEN MissingTitle
  ELSE IF ScenesBad(script) THEN EmptySceneList
  ELSE LET r == SceneLoop(script.scenes.items, 1, script.duration_seconds)
       IN IF r # Ok THEN r ELSE OverlapLoop(script.scenes.items, 2)

\* validateScript: Ok when it returns, else the error it throws.
validateScript(script) ==
  IF TitleBad(script) THEN MissingTitle
  ELSE IF DurationBad(script) THEN InvalidDuration
  ELSE IF ScenesBad(script) THEN EmptySceneList
  ELSE LET r == SceneLoop(script.scenes.items, 1, script.duration_seconds)
       IN IF r # Ok THEN r ELSE OverlapLoop(script.scenes.items, 2)

(***************************************************************************)
(* Text is a sequence of one-character strings.  The duration extraction   *)
(* of runFullPipeline: the regular expression /Duration: ([\d.]+) seconds/ *)
(* and parseFloat of its group.                                            *)
(***************************************************************************)
DurationPrefix == <<"D", "u", "r", "a", "t", "i", "o", "n", ":", " ">>
SecondsSuffix == <<" ", "s", "e", "c", "o", "n", "d", "s">>
Digits == {"0", "1", "2", "3", "4", "5", "6", "7", "8", "9"}
NumChars == Digits \cup {"."}
DigitVal(c) ==
  CASE c = "0" -> 0 [] c = "1" -> 1 [] c = "2" -> 2 [] c = "3" -> 3 [] c = "4" -> 4
    [] c = "5" -> 5 [] c = "6" -> 6 [] c = "7" -> 7 [] c = "8" -> 8 [] c = "9" -> 9

\* The literal lit occurs in text at position p.
HasAt(text, p, lit) ==
  /\ p + Len(lit) - 1 <= Len(text)
  /\ \A j \in 1..Len(lit) : text[p + j - 1] = lit[j]

\* The number of characters of class C that text holds from position p on.
RECURSIVE RunLength(_, _, _)
RunLength(text, p, C) ==
  IF p > Len(text) \/ text[p] \notin C THEN 0
  ELSE 1 + RunLength(text, p + 1, C)

\* [\d.]+ is greedy: it takes n characters and gives them back one by one
\* until " seconds" follows; 0 when no length fits.
RECURSIVE GroupLength(_, _, _)
GroupLength(text, q, n) ==
  IF n < 1 THEN 0
  ELSE IF HasAt(text, q + n, SecondsSuffix) THEN n
  ELSE GroupLength(text, q, n - 1)

\* The match attempted at position p: the captured group, or <<>> (a group
\* of [\d.]+ is never empty, so <<>> stands for no match here).
MatchAt(text, p) ==
  IF ~HasAt(text, p, DurationPrefix) THEN <<>>
  ELSE LET q == p + Len(DurationPrefix)
           n == GroupLength(text, q, RunLength(text, q, NumChars))
       IN SubSeq(text, q, q + n - 1)

\* String.prototype.match without the g flag: the leftmost match.
RECURSIVE MatchFrom(_, _)
MatchFrom(text, p) ==
  IF p > Len(text) THEN <<>>
  ELSE IF MatchAt(text, p) # <<>> THEN MatchAt(text, p)
  ELSE MatchFrom(text, p + 1)

\* A JavaScript number: NaN, or num / 10^scale with no trailing zero in the
\* fraction (1.50 and 1.5 are the same number).
NaN == [nan |-> TRUE, num |-> 0, scale |-> 0]
RECURSIVE Normal(_, _)
Normal(num, scale) ==
  IF scale > 0 /\ num % 10 = 0 THEN Normal(num \div 10, scale - 1)
  ELSE [nan |-> FALSE, num |-> num, scale |-> scale]

\* The value of a run of digits read after the value acc.
RECURSIVE DigitsValue(_, _)
DigitsValue(ds, acc) ==
  IF ds = <<>> THEN acc
  ELSE DigitsValue(Tail(ds), 10 * acc + DigitVal(Head(ds)))

\* parseFloat: the longest prefix that is a decimal literal (digits, then
\* optionally a dot and digits, at least one digit in all); NaN without one.
parseFloat(str) ==
  LET a == RunLength(str, 1, Digits)
      dot == a + 1 <= Len(str) /\ str[a + 1] = "."
      b == IF dot THEN RunLength(str, a + 2, Digits) ELSE 0
  IN IF a + b = 0 THEN NaN
     ELSE Normal(DigitsValue(SubSeq(str, 1, a) \o SubSeq(str, a + 2, a + 1 + b), 0), b)

\* The fallback of line 51.
DefaultDuration == Normal(30, 0)

\* Lines 50-51: durationMatch ? parseFloat(durationMatch[1]) : 30.0
ExtractDuration(text) ==
  LET group == MatchFrom(text, 1)
  IN IF group # <<>> THEN parseFloat(group) ELSE DefaultDuration

\* String.prototype.trim: white space and line terminators are taken off
\* both ends.  A character without an escape of its own is written by its
\* code point.
LineTerminators == {"\n", "\r", "U+2028", "U+2029"}
WhiteSpace ==
  {" ", "\t", "\f", "U+000B", "U+00A0", "U+FEFF",
   "U+1680", "U+2000", "U+2001", "U+2002", "U+2003", "U+2004", "U+2005",
   "U+2006", "U+2007", "U+2008", "U+2009", "U+200A", "U+202F", "U+205F",
   "U+3000"} \cup LineTerminators
RECURSIVE TrimStart(_)
TrimStart(text) ==
  IF text # <<>> /\ Head(text) \in WhiteSpace THEN TrimStart(Tail(text)) ELSE text
RECURSIVE TrimEnd(_)
TrimEnd(text) ==
  IF text # <<>> /\ text[Len(text)] \in WhiteSpace
    THEN TrimEnd(SubSeq(text, 1, Len(text) - 1))
  ELSE text
Trim(text) == TrimEnd(TrimStart(text))

(***************************************************************************)
(* Scripts the scenes catalog can hold (scenes.json is read with           *)
(* JSON.parse, so every field is a JSON value or missing).                 *)
(***************************************************************************)
MaxTime == 3
MaxScenes == 3
MaxMixedScenes == 2

\* Arrays of at most n elements of S.
ArraysUpTo(S, n) == UNION {[1..k -> S] : k \in 0..n}

\* Well-formed fields, every timing from one second before 0 up to MaxTime.
TimedScenes ==
  [start : {Num(n) : n \in -1..(MaxTime - 1)},
   end : {Num(n) : n \in 1..MaxTime},
   voice : {Str("a")},
   overlay : {Str("b")}]

\* Every way a field can have the wrong type or be empty.
MixedScenes ==
  [start : {Num(0), Str("0")},
   end : {Num(1), Str("1")},
   voice : {Str("a"), Str(""), Num(5)},
   overlay : {Str("b"), Undefined}]

TimedScripts ==
  [title : {Str("X")},
   duration_seconds : {Num(d) : d \in 1..MaxTime},
   scenes : {ArrayOf(a) : a \in ArraysUpTo(TimedScenes, MaxScenes)}]

MixedScripts ==
  [title : {Str("X"), Str(""), Num(5)},
   duration_seconds : {Num(-1), Num(0), Num(MaxTime), Str("2")},
   scenes : {NotAnArray} \cup {ArrayOf(a) : a \in ArraysUpTo(MixedScenes, MaxMixedScenes)}]

ScriptInputs == TimedScripts \cup MixedScripts

MaxSegments == 5
MaxChunks == 3

\* The text of a sequence of chunks.
RECURSIVE Flatten(_)
Flatten(chunks) ==
  IF chunks = <<>> THEN <<>> ELSE Head(chunks) \o Flatten(Tail(chunks))

\* What the duration probe can print, piece by piece; execute hands its
\* caller trimmed text only.
Segments ==
  {DurationPrefix, SecondsSuffix, <<"0">>, <<"4">>, <<".">>, <<"x">>, <<" ">>}
ProbeTexts == {Trim(Flatten(segs)) : segs \in ArraysUpTo(Segments, MaxSegments)}

(***************************************************************************)
(* The executor of index.ts: errors, the promise and its handlers.         *)
(***************************************************************************)
Null == [t |-> "object", s |-> "", n |-> 0]

\* new Error(`Python script failed: ${stderr}`)
ExitError(err) == Failure("Python script failed: ", NoIndex, err)
\* The error child_process emits when the worker cannot be spawned: next to
\* its message it holds spawnargs, the argument list of the call (the
\* worker's script path, then the arguments).
SpawnError(call) ==
  [msg |-> "spawn python ENOENT", index |-> NoIndex, detail |-> <<>>,
   spawnargs |-> call]
\* The TypeError path.resolve throws for an undefined path, known by its
\* code.
PathTypeError == Failure("ERR_INVALID_ARG_TYPE", NoIndex, <<"undefined">>)
\* What fs.writeJson rejects with.
SaveError == Failure("writeJson failed", NoIndex, <<>>)
MissingInputVideo ==
  Failure("Input video path required for prepare-video step", NoIndex, <<>>)
\* The step names the message of line 112 lists, in its order.
AvailableSteps == <<"generate", "synth", "prepare-video", "assemble">>
\* The template string of line 112: the step given, then the listed names.
UnknownStep(step) ==
  Failure("Unknown step: . Available steps: ", NoIndex, <<step>> \o AvailableSteps)

NoPromise == [state |-> "none", text |-> <<>>, error |-> Ok]
PendingPromise == [state |-> "pending", text |-> <<>>, error |-> Ok]
Resolve(text) == [state |-> "resolved", text |-> text, error |-> Ok]
Reject(error) == [state |-> "rejected", text |-> <<>>, error |-> error]

\* Mutant of the 'data' handlers: the chunk is put in front.
OnDataPrepend(buffer, chunk) == chunk \o buffer

\* stdout += data.toString() and stderr += data.toString()
OnData(buffer, chunk) == buffer \o chunk

\* The 'close' handler: what it settles the promise with.
OnClose(code, out, err) ==
  IF TypeOf(code) = "number" /\ code.n = 0 THEN Resolve(Trim(out))
  ELSE Reject(ExitError(err))

\* Mutant of the 'error' handler: it logs the error and leaves the promise
\* to the 'close' handler.
OnErrorLogsOnly(error) == PendingPromise

\* The 'error' handler.
OnError(error) == Reject(error)

\* A promise settles once: resolve and reject do nothing on a settled one.
Settle(promise, with) == IF promise.state = "pending" THEN with ELSE promise

(***************************************************************************)
(* Worker arguments: a literal, path.resolve(p), path.join(outputPath, p)  *)
(* or a number's toString().                                               *)
(***************************************************************************)
Lit(text) == [kind |-> "literal", text |-> text, num |-> Normal(0, 0)]
Resolved(text) == [kind |-> "resolved", text |-> text, num |-> Normal(0, 0)]
InOutput(text) == [kind |-> "output", text |-> text, num |-> Normal(0, 0)]
NumArg(num) == [kind |-> "number", text |-> "", num |-> num]

SynthArgs == <<Lit("../output/script.json"), Lit("../output/speech_all.wav")>>
ProbeArgs == <<Lit("../output/speech_all.wav")>>
\* prepareBackgroundVideo's argument list
PrepareArgs(input, output, duration) ==
  <<Resolved(input), InOutput(output), NumArg(duration)>>
AssembleArgs ==
  <<Lit("../output/script.json"), Lit("../output/background.mp4"),
    Lit("../output/speech_all.wav"), Lit("../output/short.mp4")>>
\* generateTTS's argument list: the text as it is, the output file joined to
\* the output directory.
TTSArgs(text, outputFileName) == <<Lit(text), InOutput(outputFileName)>>
\* processAudio's argument list: both files joined to the output directory.
ProcessArgs(inputFile, outputFile) == <<InOutput(inputFile), InOutput(outputFile)>>
\* assembleVideo's argument list: the four files joined to the output
\* directory.
AssembleVideoArgs(script_, backgroundVideo, audioFile, outputVideo) ==
  <<InOutput(script_), InOutput(backgroundVideo), InOutput(audioFile),
    InOutput(outputVideo)>>

\* What the catalog's default scene can hold in the pipeline runs.
ScenarioValid ==
  [title |-> Str("X"), duration_seconds |-> Num(2),
   scenes |-> ArrayOf(<<[start |-> Num(0), end |-> Num(1), voice |-> Str("a"), overlay |-> Str("b")],
                        [start |-> Num(1), end |-> Num(2), voice |-> Str("a"), overlay |-> Str("b")]>>)]
ScenarioOverlap ==
  [title |-> Str("X"), duration_seconds |-> Num(2),
   scenes |-> ArrayOf(<<[start |-> Num(0), end |-> Num(1), voice |-> Str("a"), overlay |-> Str("b")],
                        [start |-> Num(0), end |-> Num(2), voice |-> Str("a"), overlay |-> Str("b")]>>)]
ExampleScripts == {ScenarioValid, ScenarioOverlap}
NoScript == [title |-> Undefined, duration_seconds |-> Undefined, scenes |-> NotAnArray]

\* What a worker writes to its streams, chunk by chunk: a well-formed
\* duration line, a duration line with a lone dot, a tab.
DurationLine(number) == DurationPrefix \o number \o SecondsSuffix \o <<"\n">>
StdoutChunks == {DurationLine(<<"4", ".", "0">>), DurationLine(<<".">>), <<"\t">>}
StderrChunks == {<<"E">>, <<"r">>}
\* The codes 'close' can carry for a worker that ran: exit codes, or null
\* when a signal ended it.
ExitCodes == {Num(0), Num(1), Num(2), Null}
\* The code 'close' carries after a failed spawn (the negated errno).
SpawnFailureCode == Num(-2)

Steps == {"", "generate", "synth", "prepare-video", "assemble", "unknown"}
InputVideos == {"", "clip.mp4"}

VARIABLES
  script,               \* the example script generateScript picks
  verdict,              \* what validateScript did with it
  audioDurationResult,  \* the probe's output as runFullPipeline received it
  audioDuration,        \* the duration derived from it
  argv,                 \* main's arguments: step and inputVideo ("" when absent)
  config,               \* the runner's this.config: what its constructor loaded
  pc,                   \* where the runner is suspended
  inputVideo,           \* runFullPipeline's inputVideo after defaulting
  proc,                 \* the child process of the execute call in flight
  procOut,              \* the chunks the worker wrote to standard output
  procErr,              \* the chunks the worker wrote to standard error
  stdout,               \* execute's captured standard output
  stderr,               \* execute's captured standard error
  promise,              \* the promise execute returned
  calls,                \* every worker spawned, in order
  results,              \* how each execute call settled, in order
  scriptFile,           \* the content of output/script.json
  outputs,              \* which call wrote each worker output file, 0 for none
  outcome,              \* how runFullPipeline / runStep settled
  exit,                 \* the process exit code, "running" before
  configFiles,          \* what each candidate config.json location holds
  cachedConfig,         \* the module variable cachedConfig
  allocated,            \* how many configuration objects were created
  loads,                \* what each loadConfig / reloadConfig call returned
  runAt,                \* two concurrent runs: where each run is
  outputDir,            \* two concurrent runs: which run wrote each file last
  consumed              \* two concurrent runs: the files each run's workers read

Pending == Failure("pending", NoIndex, <<>>)
Unset == [nan |-> FALSE, num |-> 0, scale |-> -1]
NoProc == [state |-> "none", code |-> Undefined]

\* The fixed-name files the workers leave in the output directory next to
\* script.json; the duration probe writes none.
OutputFiles == {"speech_all.wav", "background.mp4", "short.mp4"}
NoOutputs == [file \in OutputFiles |-> 0]
WorkerOutput(name) ==
  CASE name = "synth.py" -> {"speech_all.wav"}
    [] name = "prepare_video.py" -> {"background.mp4"}
    [] name = "assemble.py" -> {"short.mp4"}
    [] OTHER -> {}

(***************************************************************************)
(* The configuration loader (config.ts).  A configuration value is known   *)
(* by the object it is (id, 0 for null), by the sections it holds and by   *)
(* its video.background_video ("" without a video section).                *)
(***************************************************************************)
\* The sections of interface Config.
Sections == {"script", "tts", "video", "llm", "output", "text_overlay"}
\* A document that lacks sections: here all but the first.
PartialSections == {"script"}

JsNull == [id |-> 0, sections |-> {}, background_video |-> ""]
ConfigObject(id, sections, background_video) ==
  [id |-> id, sections |-> sections, background_video |-> background_video]
\* getDefaultConfig: a new object literal with every section, each call.
getDefaultConfig(id) == ConfigObject(id, Sections, "minecraft_runner.mp4")

\* The distinct files behind possiblePaths: the second and the third path
\* name the same file of the working directory.
Locations == {"project", "cwd"}
possiblePaths == <<"project", "cwd", "cwd">>
\* What a location holds: no file; a document with every section, naming
\* a background video of its own; a file that cannot be read or parsed; the
\* document null; a document that lacks sections; a document with every
\* section whose video section lacks background_video.
FileStates == {"absent", "full", "broken", "null", "partial", "no_background"}

RECURSIVE FirstExisting(_, _)
\* The first of possiblePaths that exists, 0 when none does (lines 84-85).
FirstExisting(present, i) ==
  IF i > Len(possiblePaths) THEN 0
  ELSE IF present[possiblePaths[i]] # "absent" THEN i
  ELSE FirstExisting(present, i + 1)

\* JSON.parse of a readable file: the document as it is, a new object or
\* null (line 87).
Parse(state, id) ==
  CASE state = "full" -> ConfigObject(id, Sections, "custom.mp4")
    [] state = "partial" -> ConfigObject(id, PartialSections, "")
    [] state = "no_background" -> ConfigObject(id, Sections, "")
    [] state = "null" -> JsNull

\* loadConfig, lines 71-101, as what it returns and what it leaves in
\* cachedConfig, given the cache, the files and the id of the next object.
LoadResult(cache, present, id) ==
  IF cache # JsNull THEN [value |-> cache, cache |-> cache]
  ELSE LET found == FirstExisting(present, 1) IN
    IF found = 0
      THEN [value |-> getDefaultConfig(id), cache |-> getDefaultConfig(id)]
    ELSE IF present[possiblePaths[found]] = "broken"
      THEN [value |-> getDefaultConfig(id), cache |-> cache]
    ELSE [value |-> Parse(present[possiblePaths[found]], id),
          cache |-> Parse(present[possiblePaths[found]], id)]

unitVars == <<script, verdict, audioDurationResult, audioDuration>>
execVars == <<proc, procOut, procErr, stdout, stderr, promise, calls, results>>
fileVars == <<scriptFile, outputs>>
cfgVars == <<configFiles, cachedConfig, allocated, loads>>
raceVars == <<runAt, outputDir, consumed>>
runVars == <<argv, config, raceVars, cfgVars, pc, inputVideo, fileVars, outcome, exit>>
vars == <<unitVars, execVars, runVars>>

\* The configuration module before its first call.
NothingLoaded ==
  /\ cachedConfig = JsNull
  /\ allocated = 0
  /\ loads = <<>>

\* The runner and the executor before main runs.
RunnerAtRest ==
  /\ pc = "main"
  /\ inputVideo = ""
  /\ proc = NoProc
  /\ procOut = <<>> /\ procErr = <<>>
  /\ stdout = <<>> /\ stderr = <<>>
  /\ promise = NoPromise
  /\ calls = <<>>
  /\ results = <<>>
  /\ scriptFile = NoScript
  /\ outputs = NoOutputs
  /\ outcome = NoPromise
  /\ exit = "running"

\* The workers of the full run, in the order runFullPipeline calls them.
WorkerOrder == <<"synth.py", "audio_utils.py", "prepare_video.py", "assemble.py">>

\* Two runs of the full pipeline (two processes started on one output
\* directory), and the fixed-name files of that directory.
Runs == {"A", "B"}
DirFiles == {"script.json"} \cup OutputFiles
Position(at, worker, read) == [pc |-> at, worker |-> worker, read |-> read]
NotStarted == Position("main", 0, FALSE)
\* The files each worker reads, by the paths the runner passes to it.
WorkerInputs(name) ==
  CASE name = "synth.py" -> {"script.json"}
    [] name = "audio_utils.py" -> {"speech_all.wav"}
    [] name = "prepare_video.py" -> {}
    [] name = "assemble.py" -> {"script.json", "background.mp4", "speech_all.wav"}

\* No second run is under way.
NoRace ==
  /\ runAt = [r \in Runs |-> NotStarted]
  /\ outputDir = [file \in DirFiles |-> "none"]
  /\ consumed = [r \in Runs |-> {}]

\* The two loadConfig() calls of new FullPipeline(): the runner's
\* constructor (line 12), then the generator's (generate.ts line 45).
FirstLoad(present) == LoadResult(JsNull, present, 1)
SecondLoad(present) ==
  LoadResult(FirstLoad(present).cache, present,
             IF FirstLoad(present).value.id = 1 THEN 2 ELSE 1)

\* The pipeline as its constructor leaves it: this.config is what the first
\* call returned, the loader has served both calls.
Constructed ==
  /\ config = FirstLoad(configFiles).value
  /\ cachedConfig = SecondLoad(configFiles).cache
  /\ allocated = Cardinality({FirstLoad(configFiles).value.id,
                              SecondLoad(configFiles).value.id} \ {0})
  /\ loads = <<[op |-> "load", value |-> FirstLoad(configFiles).value],
               [op |-> "load", value |-> SecondLoad(configFiles).value]>>

\* No config.json at any location.
NoConfigFiles == [location \in Locations |-> "absent"]
\* The config.json files a run of the pipeline starts with: none, or one in
\* the working directory.
RunConfigFiles == {[project |-> "absent", cwd |-> state] : state \in FileStates}

\* The pipeline constructed and main about to branch on its arguments.
AtRest ==
  /\ RunnerAtRest
  /\ NoRace
  /\ Constructed

(***************************************************************************)
(* validateScript on its own, over the scripts of ScriptInputs.            *)
(***************************************************************************)
InitValidate ==
  /\ script \in ScriptInputs
  /\ verdict = Pending
  /\ audioDurationResult = <<>>
  /\ audioDuration = Unset
  /\ argv = [step |-> "generate", inputVideo |-> ""]
  /\ configFiles = NoConfigFiles
  /\ AtRest

\* generateScript line 105: this.validateScript(script)
Validate ==
  /\ verdict = Pending
  /\ verdict' = validateScript(script)
  /\ UNCHANGED <<script, audioDurationResult, audioDuration, execVars, runVars>>

NextValidate == Validate

SpecValidate == InitValidate /\ [][NextValidate]_vars

(***************************************************************************)
(* The duration extraction on its own, over the texts of ProbeTexts.       *)
(***************************************************************************)
InitDuration ==
  /\ script = ScenarioValid
  /\ verdict = Pending
  /\ audioDurationResult \in ProbeTexts
  /\ audioDuration = Unset
  /\ argv = [step |-> "", inputVideo |-> ""]
  /\ configFiles = NoConfigFiles
  /\ AtRest

\* runFullPipeline lines 50-51
Extract ==
  /\ audioDuration = Unset
  /\ audioDuration' = ExtractDuration(audioDurationResult)
  /\ UNCHANGED <<script, verdict, audioDurationResult, execVars, runVars>>

NextDuration == Extract

SpecDuration == InitDuration /\ [][NextDuration]_vars

(***************************************************************************)
(* The configuration loader on its own: calls of loadConfig and            *)
(* reloadConfig, with the candidate files changing in between.             *)
(***************************************************************************)
MaxLoads == 3

InitConfig ==
  /\ script = ScenarioValid
  /\ verdict = Pending
  /\ audioDurationResult = <<>>
  /\ audioDuration = Unset
  /\ argv = [step |-> "", inputVideo |-> ""]
  /\ config = JsNull
  /\ RunnerAtRest
  /\ NoRace
  /\ configFiles \in [Locations -> FileStates]
  /\ NothingLoaded

\* A call that starts from `cache` returns, and is logged as `op`.
Loaded(op, cache) ==
  LET result == LoadResult(cache, configFiles, allocated + 1) IN
    /\ cachedConfig' = result.cache
    /\ allocated' = IF result.value.id = allocated + 1 THEN allocated + 1 ELSE allocated
    /\ loads' = Append(loads, [op |-> op, value |-> result.value])

\* loadConfig, lines 71-101 (getConfig, lines 175-177, is the same call).
LoadConfig ==
  /\ Len(loads) < MaxLoads
  /\ Loaded("load", cachedConfig)
  /\ UNCHANGED <<unitVars, execVars, argv, config, raceVars, configFiles, pc, inputVideo,
                 fileVars, outcome, exit>>

\* reloadConfig, lines 170-173: the cache is cleared, then loadConfig runs.
ReloadConfig ==
  /\ Len(loads) < MaxLoads
  /\ Loaded("reload", JsNull)
  /\ UNCHANGED <<unitVars, execVars, argv, config, raceVars, configFiles, pc, inputVideo,
                 fileVars, outcome, exit>>

\* Between two calls a candidate file is created, removed or rewritten.
EditFile ==
  /\ \E location \in Locations, state \in FileStates :
       /\ state # configFiles[location]
       /\ configFiles' = [configFiles EXCEPT ![location] = state]
  /\ UNCHANGED <<unitVars, execVars, argv, config, raceVars, cachedConfig, allocated, loads,
                 pc, inputVideo, fileVars, outcome, exit>>

NextConfig == LoadConfig \/ ReloadConfig \/ EditFile

SpecConfig == InitConfig /\ [][NextConfig]_vars

(***************************************************************************)
(* The pipeline runner: main, runFullPipeline and runStep, suspended at    *)
(* saveScript's write and at each execute call; the worker's events are    *)
(* delivered in between.                                                   *)
(***************************************************************************)
Init ==
  /\ script \in ExampleScripts
  /\ verdict = Pending
  /\ audioDurationResult = <<>>
  /\ audioDuration = Unset
  /\ argv \in [step : Steps, inputVideo : InputVideos]
  /\ configFiles \in RunConfigFiles
  /\ AtRest

\* main line 127: if (step) runStep else runFullPipeline
Full == argv.step = ""

\* executePythonScript up to its return: the worker is spawned, the buffers
\* are empty and the promise is pending.
Spawn(name, args) ==
  /\ proc' = [state |-> "running", code |-> Undefined]
  /\ procOut' = <<>>
  /\ procErr' = <<>>
  /\ stdout' = <<>>
  /\ stderr' = <<>>
  /\ promise' = PendingPromise
  /\ calls' = Append(calls, [script |-> name, args |-> args])
  /\ UNCHANGED results

\* Mutant of the failure path: the catch removes what the run has written
\* before it rethrows.
ThrowAndCleanUp(error) ==
  /\ pc' = "failed"
  /\ outcome' = Reject(error)
  /\ scriptFile' = NoScript
  /\ outputs' = NoOutputs

\* The run ends with an error thrown to main (runFullPipeline lines 70-73:
\* the catch logs and rethrows, it touches no file).
Throw(error) ==
  /\ pc' = "failed"
  /\ outcome' = Reject(error)
  /\ UNCHANGED fileVars

\* The run returns to main.
Return ==
  /\ pc' = "done"
  /\ outcome' = Resolve(<<>>)

\* Reading config.section.field throws a TypeError when the configuration
\* is null or lacks the section.
TypeError(of, reading) == Failure("Cannot read properties of", NoIndex, <<of, reading>>)
Read(cfg, section, field) ==
  IF cfg = JsNull THEN TypeError("null", section)
  ELSE IF section \notin cfg.sections THEN TypeError("undefined", field)
  ELSE Ok

\* The configuration fields runFullPipeline reads before its first step:
\* line 23 (no input video given), then lines 28, 29, 30 and 32.
ConfigReads(given) ==
  (IF given THEN <<>> ELSE << <<"video", "background_video">> >>)
    \o << <<"script", "topic">>, <<"tts", "voice">>, <<"tts", "rate">>,
          <<"script", "duration_seconds">> >>

RECURSIVE FirstFault(_, _, _)
FirstFault(cfg, reads, k) ==
  IF k > Len(reads) THEN Ok
  ELSE IF Read(cfg, reads[k][1], reads[k][2]) # Ok
    THEN Read(cfg, reads[k][1], reads[k][2])
  ELSE FirstFault(cfg, reads, k + 1)

\* What the reads of a run throw: a step run reads no configuration.
ConfigFault ==
  IF Full THEN FirstFault(config, ConfigReads(argv.inputVideo # ""), 1) ELSE Ok

\* runFullPipeline lines 22-24: the input video after defaulting (still
\* undefined when line 23 threw).
Defaulted ==
  IF Full /\ argv.inputVideo = ""
    THEN IF Read(config, "video", "background_video") = Ok
           THEN config.background_video ELSE ""
  ELSE argv.inputVideo

\* Mutant of the generate step: the script goes on to be saved whatever
\* validateScript found.
GenerateUnchecked ==
  /\ pc = "main"
  /\ argv.step \in {"", "generate"}
  /\ inputVideo' = Defaulted
  /\ IF ConfigFault # Ok
       THEN Throw(ConfigFault) /\ UNCHANGED verdict
       ELSE /\ verdict' = validateScript(script)
            /\ pc' = "save" /\ outcome' = PendingPromise /\ UNCHANGED fileVars
  /\ UNCHANGED <<script, audioDurationResult, audioDuration, execVars,
                 argv, config, raceVars, cfgVars, exit>>

\* runFullPipeline lines 22-36 and runStep lines 81-84: the input video is
\* defaulted and the configuration is logged (full run only), then the
\* script is generated and validated.
Generate ==
  /\ pc = "main"
  /\ argv.step \in {"", "generate"}
  /\ inputVideo' = Defaulted
  /\ IF ConfigFault # Ok
       THEN Throw(ConfigFault) /\ UNCHANGED verdict
       ELSE /\ verdict' = validateScript(script)
            /\ IF verdict' = Ok
                 THEN pc' = "save" /\ outcome' = PendingPromise /\ UNCHANGED fileVars
                 ELSE Throw(verdict')
  /\ UNCHANGED <<script, audioDurationResult, audioDuration, execVars,
                 argv, config, raceVars, cfgVars, exit>>

\* saveScript's write completes or fails; after it the full run goes on to
\* the synth worker (lines 37-42), the generate step returns (lines 85-88).
SaveScript ==
  /\ pc = "save"
  /\ \E written \in BOOLEAN :
       IF ~written
         THEN /\ Throw(SaveError)
              /\ UNCHANGED execVars
       ELSE /\ scriptFile' = script
            /\ UNCHANGED outputs
            /\ IF Full
                 THEN /\ Spawn("synth.py", SynthArgs)
                      /\ pc' = "synth"
                      /\ UNCHANGED outcome
                 ELSE /\ Return
                      /\ UNCHANGED execVars
  /\ UNCHANGED <<unitVars, argv, config, raceVars, cfgVars, inputVideo, exit>>

\* runStep lines 90-92
StepSynth ==
  /\ pc = "main"
  /\ argv.step = "synth"
  /\ Spawn("synth.py", <<>>)
  /\ pc' = "synth"
  /\ inputVideo' = argv.inputVideo
  /\ outcome' = PendingPromise
  /\ UNCHANGED <<unitVars, argv, config, raceVars, cfgVars, fileVars, exit>>

\* Mutant of the prepare-video step: the input video is not required.
StepPrepareVideoUnchecked ==
  /\ pc = "main"
  /\ argv.step = "prepare-video"
  /\ inputVideo' = argv.inputVideo
  /\ Spawn("prepare_video.py",
           PrepareArgs(argv.inputVideo, "background.mp4", Normal(30, 0)))
  /\ pc' = "prepare"
  /\ outcome' = PendingPromise
  /\ UNCHANGED <<unitVars, argv, config, raceVars, cfgVars, fileVars, exit>>

\* runStep lines 96-101
StepPrepareVideo ==
  /\ pc = "main"
  /\ argv.step = "prepare-video"
  /\ inputVideo' = argv.inputVideo
  /\ IF argv.inputVideo = ""
       THEN /\ Throw(MissingInputVideo)
            /\ UNCHANGED execVars
       ELSE /\ Spawn("prepare_video.py",
                     PrepareArgs(argv.inputVideo, "background.mp4", Normal(30, 0)))
            /\ pc' = "prepare"
            /\ outcome' = PendingPromise
            /\ UNCHANGED fileVars
  /\ UNCHANGED <<unitVars, argv, config, raceVars, cfgVars, exit>>

\* runStep lines 105-107
StepAssemble ==
  /\ pc = "main"
  /\ argv.step = "assemble"
  /\ Spawn("assemble.py", AssembleArgs)
  /\ pc' = "assemble"
  /\ inputVideo' = argv.inputVideo
  /\ outcome' = PendingPromise
  /\ UNCHANGED <<unitVars, argv, config, raceVars, cfgVars, fileVars, exit>>

\* Mutant of the default branch: an unknown step falls through to the last
\* case and starts the assembly worker.
StepUnknownFallsThrough ==
  /\ pc = "main"
  /\ argv.step \notin {"", "generate", "synth", "prepare-video", "assemble"}
  /\ Spawn("assemble.py", AssembleArgs)
  /\ pc' = "assemble"
  /\ inputVideo' = argv.inputVideo
  /\ outcome' = PendingPromise
  /\ UNCHANGED <<unitVars, argv, config, raceVars, cfgVars, fileVars, exit>>

\* runStep lines 111-112
StepUnknown ==
  /\ pc = "main"
  /\ argv.step \notin {"", "generate", "synth", "prepare-video", "assemble"}
  /\ inputVideo' = argv.inputVideo
  /\ Throw(UnknownStep(argv.step))
  /\ UNCHANGED <<unitVars, execVars, argv, config, raceVars, cfgVars, exit>>

\* The worker writes a chunk to standard output: the 'data' handler runs.
StdoutData ==
  /\ exit = "running"
  /\ proc.state = "running"
  /\ Len(procOut) + Len(procErr) < MaxChunks
  /\ \E chunk \in StdoutChunks :
       /\ procOut' = Append(procOut, chunk)
       /\ stdout' = OnData(stdout, chunk)
  /\ UNCHANGED <<unitVars, runVars, proc, procErr, stderr, promise, calls, results>>

\* The worker writes a chunk to standard error.
StderrData ==
  /\ exit = "running"
  /\ proc.state = "running"
  /\ Len(procOut) + Len(procErr) < MaxChunks
  /\ \E chunk \in StderrChunks :
       /\ procErr' = Append(procErr, chunk)
       /\ stderr' = OnData(stderr, chunk)
  /\ UNCHANGED <<unitVars, runVars, proc, procOut, stdout, promise, calls, results>>

\* The promise after a handler settled it with `with`, and the log of
\* settlements.
Settled(with) ==
  /\ promise' = Settle(promise, with)
  /\ results' = IF promise.state = "pending"
                THEN Append(results, [state |-> with.state, error |-> with.error])
                ELSE results

\* The worker could not be spawned: 'error' is emitted, before any output.
ProcError ==
  /\ exit = "running"
  /\ proc.state = "running"
  /\ procOut = <<>> /\ procErr = <<>>
  /\ proc' = [state |-> "errored", code |-> Undefined]
  /\ Settled(OnError(SpawnError(calls[Len(calls)])))
  /\ UNCHANGED <<unitVars, runVars, procOut, procErr, stdout, stderr, calls>>

\* The worker's streams have closed: 'close' is emitted with the exit code,
\* null after a signal, the negated errno after a failed spawn.
ProcClose ==
  /\ exit = "running"
  /\ proc.state \in {"running", "errored"}
  /\ \E code \in ExitCodes \cup {SpawnFailureCode} :
       /\ (proc.state = "errored") = (code = SpawnFailureCode)
       /\ proc' = [state |-> "closed", code |-> code]
       /\ Settled(OnClose(code, stdout, stderr))
       /\ outputs' = [file \in OutputFiles |->
                        IF code = Num(0) /\ file \in WorkerOutput(calls[Len(calls)].script)
                        THEN Len(calls) ELSE outputs[file]]
  /\ UNCHANGED <<unitVars, argv, config, raceVars, cfgVars, pc, inputVideo, scriptFile, outcome, exit,
                 procOut, procErr, stdout, stderr, calls>>

IsSettled == promise.state \in {"resolved", "rejected"}

\* Mutant of the step after synth: the synth call is not awaited, the probe
\* is started while the synth worker may still run.
AwaitSynthNotAwaited ==
  /\ pc = "synth" /\ Full
  /\ Spawn("audio_utils.py", ProbeArgs)
  /\ pc' = "probe"
  /\ UNCHANGED outcome
  /\ UNCHANGED <<unitVars, argv, config, raceVars, cfgVars, inputVideo, fileVars, exit>>

\* runFullPipeline lines 42-47: the synth call settled.
AwaitSynth ==
  /\ pc = "synth" /\ Full /\ IsSettled
  /\ IF promise.state = "resolved"
       THEN /\ Spawn("audio_utils.py", ProbeArgs)
            /\ pc' = "probe"
            /\ UNCHANGED <<outcome, fileVars>>
       ELSE /\ Throw(promise.error)
            /\ UNCHANGED execVars
  /\ UNCHANGED <<unitVars, argv, config, raceVars, cfgVars, inputVideo, exit>>

\* runFullPipeline lines 47-54: the probe call settled, the duration is
\* derived and the video-preparation worker is started with it;
\* prepareBackgroundVideo (index.ts line 189) throws on an undefined input
\* video, before it spawns.
AwaitProbe ==
  /\ pc = "probe" /\ Full /\ IsSettled
  /\ IF promise.state = "resolved"
       THEN /\ audioDurationResult' = promise.text
            /\ audioDuration' = ExtractDuration(promise.text)
            /\ IF inputVideo = ""
                 THEN /\ Throw(PathTypeError)
                      /\ UNCHANGED execVars
                 ELSE /\ Spawn("prepare_video.py",
                               PrepareArgs(inputVideo, "background.mp4", audioDuration'))
                      /\ pc' = "prepare"
                      /\ UNCHANGED <<outcome, fileVars>>
       ELSE /\ Throw(promise.error)
            /\ UNCHANGED <<audioDurationResult, audioDuration, execVars>>
  /\ UNCHANGED <<script, verdict, argv, config, raceVars, cfgVars, inputVideo, exit>>

\* Mutant of the step after video preparation: its failure is swallowed and
\* the assembly worker is started all the same.
AwaitPrepareIgnoringFailure ==
  /\ pc = "prepare" /\ Full /\ IsSettled
  /\ Spawn("assemble.py", AssembleArgs)
  /\ pc' = "assemble"
  /\ UNCHANGED outcome
  /\ UNCHANGED <<unitVars, argv, config, raceVars, cfgVars, inputVideo, fileVars, exit>>

\* runFullPipeline lines 54-59: the video-preparation call settled.
AwaitPrepare ==
  /\ pc = "prepare" /\ Full /\ IsSettled
  /\ IF promise.state = "resolved"
       THEN /\ Spawn("assemble.py", AssembleArgs)
            /\ pc' = "assemble"
            /\ UNCHANGED <<outcome, fileVars>>
       ELSE /\ Throw(promise.error)
            /\ UNCHANGED execVars
  /\ UNCHANGED <<unitVars, argv, config, raceVars, cfgVars, inputVideo, exit>>

\* Mutant of the last step: the catch throws a new error in place of the
\* one it caught.
AwaitAssembleWrapsError ==
  /\ pc = "assemble" /\ Full /\ IsSettled
  /\ IF promise.state = "resolved"
       THEN Return /\ UNCHANGED fileVars
       ELSE Throw(Failure("Pipeline failed", NoIndex, <<>>))
  /\ UNCHANGED <<unitVars, execVars, argv, config, raceVars, cfgVars, inputVideo, exit>>

\* runFullPipeline lines 59-73: the assembly call settled.
AwaitAssemble ==
  /\ pc = "assemble" /\ Full /\ IsSettled
  /\ IF promise.state = "resolved"
       THEN Return /\ UNCHANGED fileVars
       ELSE Throw(promise.error)
  /\ UNCHANGED <<unitVars, execVars, argv, config, raceVars, cfgVars, inputVideo, exit>>

\* runStep lines 92-94, 101-103, 107-109: the step's one call settled.
AwaitStep ==
  /\ pc \in {"synth", "prepare", "assemble"} /\ ~Full /\ IsSettled
  /\ IF promise.state = "resolved"
       THEN Return /\ UNCHANGED fileVars
       ELSE Throw(promise.error)
  /\ UNCHANGED <<unitVars, execVars, argv, config, raceVars, cfgVars, inputVideo, exit>>

\* Mutant of main: the catch logs the error and does not exit with 1.
MainExitLogsOnly ==
  /\ pc \in {"done", "failed"}
  /\ exit = "running"
  /\ exit' = "0"
  /\ UNCHANGED <<unitVars, execVars, argv, config, raceVars, cfgVars, pc, inputVideo, fileVars, outcome>>

\* main lines 126-137: process.exit(1) in the catch, else the process ends
\* with code 0.
MainExit ==
  /\ pc \in {"done", "failed"}
  /\ exit = "running"
  /\ exit' = IF outcome.state = "resolved" THEN "0" ELSE "1"
  /\ UNCHANGED <<unitVars, execVars, argv, config, raceVars, cfgVars, pc, inputVideo, fileVars, outcome>>

Next ==
  \/ Generate
  \/ SaveScript
  \/ StepSynth
  \/ StepPrepareVideo
  \/ StepAssemble
  \/ StepUnknown
  \/ StdoutData
  \/ StderrData
  \/ ProcError
  \/ ProcClose
  \/ AwaitSynth
  \/ AwaitProbe
  \/ AwaitPrepare
  \/ AwaitAssemble
  \/ AwaitStep
  \/ MainExit

Spec == Init /\ [][Next]_vars

(***************************************************************************)
(* The orchestrator run as a program of its own (index.ts main): its four  *)
(* public methods one after the other, each awaited; the catch logs the    *)
(* error and main returns.  This entry point loads no configuration.       *)
(***************************************************************************)
InitOrchestrator ==
  /\ script = ScenarioValid
  /\ verdict = Pending
  /\ audioDurationResult = <<>>
  /\ audioDuration = Unset
  /\ argv = [step |-> "", inputVideo |-> ""]
  /\ config = JsNull
  /\ RunnerAtRest
  /\ NoRace
  /\ configFiles \in RunConfigFiles
  /\ NothingLoaded

\* main lines 217-220 and generateTTS
GenerateTTS ==
  /\ pc = "main"
  /\ Spawn("tts_generator.py",
           TTSArgs("Hello, this is a test of the TTS system!", "test_audio.wav"))
  /\ pc' = "tts"
  /\ outcome' = PendingPromise
  /\ UNCHANGED <<unitVars, argv, config, raceVars, cfgVars, inputVideo, fileVars, exit>>

\* main lines 220-225 and processAudio: the TTS call settled.
AwaitTTS ==
  /\ pc = "tts" /\ IsSettled
  /\ IF promise.state = "resolved"
       THEN /\ Spawn("audio_processor.py",
                     ProcessArgs("test_audio.wav", "processed_audio.wav"))
            /\ pc' = "process"
            /\ UNCHANGED <<outcome, fileVars>>
       ELSE /\ Throw(promise.error)
            /\ UNCHANGED execVars
  /\ UNCHANGED <<unitVars, argv, config, raceVars, cfgVars, inputVideo, exit>>

\* main lines 224-229 and prepareBackgroundVideo: the audio call settled.
AwaitProcessAudio ==
  /\ pc = "process" /\ IsSettled
  /\ IF promise.state = "resolved"
       THEN /\ Spawn("prepare_video.py",
                     PrepareArgs("minecraft_runner.mp4", "background.mp4", Normal(30, 0)))
            /\ pc' = "prepare"
            /\ UNCHANGED <<outcome, fileVars>>
       ELSE /\ Throw(promise.error)
            /\ UNCHANGED execVars
  /\ UNCHANGED <<unitVars, argv, config, raceVars, cfgVars, inputVideo, exit>>

\* main lines 228-233 and assembleVideo: the video-preparation call settled.
AwaitPrepareVideo ==
  /\ pc = "prepare" /\ IsSettled
  /\ IF promise.state = "resolved"
       THEN /\ Spawn("assemble.py",
                     AssembleVideoArgs("script.json", "background.mp4",
                                       "speech_all.wav", "short.mp4"))
            /\ pc' = "assemble"
            /\ UNCHANGED <<outcome, fileVars>>
       ELSE /\ Throw(promise.error)
            /\ UNCHANGED execVars
  /\ UNCHANGED <<unitVars, argv, config, raceVars, cfgVars, inputVideo, exit>>

\* main lines 232-238: the assembly call settled; the try block is left,
\* with the error for the catch when the call failed.
AwaitAssembleVideo ==
  /\ pc = "assemble" /\ IsSettled
  /\ IF promise.state = "resolved"
       THEN Return /\ UNCHANGED fileVars
       ELSE Throw(promise.error)
  /\ UNCHANGED <<unitVars, execVars, argv, config, raceVars, cfgVars, inputVideo, exit>>

\* main lines 236-240: the catch logs the error; either way main returns
\* and the process ends with code 0.
OrchestratorExit ==
  /\ pc \in {"done", "failed"}
  /\ exit = "running"
  /\ exit' = "0"
  /\ UNCHANGED <<unitVars, execVars, argv, config, raceVars, cfgVars, pc, inputVideo, fileVars, outcome>>

NextOrchestrator ==
  \/ GenerateTTS
  \/ StdoutData
  \/ StderrData
  \/ ProcError
  \/ ProcClose
  \/ AwaitTTS
  \/ AwaitProcessAudio
  \/ AwaitPrepareVideo
  \/ AwaitAssembleVideo
  \/ OrchestratorExit

SpecOrchestrator == InitOrchestrator /\ [][NextOrchestrator]_vars

(***************************************************************************)
(* Two full runs at once on the same output directory.  Each run goes      *)
(* through runFullPipeline's steps; a worker reads its input files at some *)
(* point while it runs and leaves its output file when it exits with 0.    *)
(***************************************************************************)
InitRace ==
  /\ script \in ExampleScripts
  /\ verdict = Pending
  /\ audioDurationResult = <<>>
  /\ audioDuration = Unset
  /\ argv = [step |-> "", inputVideo |-> ""]
  /\ configFiles = NoConfigFiles
  /\ AtRest

soloVars ==
  <<unitVars, execVars, argv, config, cfgVars, pc, inputVideo, fileVars, outcome, exit>>

\* runFullPipeline lines 34-36: the run generates and validates its script.
RunGenerate(r) ==
  /\ runAt[r].pc = "main"
  /\ runAt' = [runAt EXCEPT ![r] =
                IF validateScript(script) = Ok THEN Position("save", 0, FALSE)
                ELSE Position("failed", 0, FALSE)]
  /\ UNCHANGED <<soloVars, outputDir, consumed>>

\* Mutant of the save: the run waits while another run is at work in the
\* output directory.
RunSaveScriptLocked(r) ==
  /\ runAt[r].pc = "save"
  /\ \A other \in Runs \ {r} : runAt[other].pc \in {"main", "done", "failed"}
  /\ outputDir' = [outputDir EXCEPT !["script.json"] = r]
  /\ runAt' = [runAt EXCEPT ![r] = Position("saved", 0, FALSE)]
  /\ UNCHANGED <<soloVars, consumed>>

\* runFullPipeline line 37, saveScript's writeJson: output/script.json is
\* written, the run still suspended at line 37 (at "saved"), or the write
\* fails and the run with it.
RunSaveScript(r) ==
  /\ runAt[r].pc = "save"
  /\ \E written \in BOOLEAN :
       IF written
         THEN /\ outputDir' = [outputDir EXCEPT !["script.json"] = r]
              /\ runAt' = [runAt EXCEPT ![r] = Position("saved", 0, FALSE)]
         ELSE /\ runAt' = [runAt EXCEPT ![r] = Position("failed", 0, FALSE)]
              /\ UNCHANGED outputDir
  /\ UNCHANGED <<soloVars, consumed>>

\* runFullPipeline lines 37-42: the run resumes after saveScript, in a
\* later turn of its event loop, and spawns the synth worker.
RunSynth(r) ==
  /\ runAt[r].pc = "saved"
  /\ runAt' = [runAt EXCEPT ![r] = Position("worker", 1, FALSE)]
  /\ UNCHANGED <<soloVars, outputDir, consumed>>

\* The run's worker in flight opens its input files: it gets what the
\* fixed names hold at that moment.
WorkerReads(r) ==
  /\ runAt[r].pc = "worker" /\ ~runAt[r].read
  /\ consumed' = [consumed EXCEPT ![r] = @ \cup
       {[worker |-> WorkerOrder[runAt[r].worker], file |-> file, writer |-> outputDir[file]] :
          file \in WorkerInputs(WorkerOrder[runAt[r].worker])}]
  /\ runAt' = [runAt EXCEPT ![r] = Position("worker", @.worker, TRUE)]
  /\ UNCHANGED <<soloVars, outputDir>>

\* The run's worker exits and the awaiting runner goes on (lines 42-61):
\* after code 0 the worker's output file is the run's and the next worker
\* is spawned, or the run returns; otherwise the run fails.
WorkerCloses(r) ==
  /\ runAt[r].pc = "worker"
  /\ \E code \in ExitCodes :
       IF code = Num(0)
         THEN /\ runAt[r].read
              /\ outputDir' = [file \in DirFiles |->
                                IF file \in WorkerOutput(WorkerOrder[runAt[r].worker])
                                THEN r ELSE outputDir[file]]
              /\ runAt' = [runAt EXCEPT ![r] =
                             IF @.worker = Len(WorkerOrder) THEN Position("done", 0, FALSE)
                             ELSE Position("worker", @.worker + 1, FALSE)]
         ELSE /\ runAt' = [runAt EXCEPT ![r] = Position("failed", 0, FALSE)]
              /\ UNCHANGED outputDir
  /\ UNCHANGED <<soloVars, consumed>>

RunNext(r) ==
  \/ RunGenerate(r)
  \/ RunSaveScript(r)
  \/ RunSynth(r)
  \/ WorkerReads(r)
  \/ WorkerCloses(r)

NextRace == \E r \in Runs : RunNext(r)

SpecRace == InitRace /\ [][NextRace]_vars

(***************************************************************************)
(* The Script invariants of the data model, stated on their own.           *)
(***************************************************************************)
Validated == verdict # Pending
Items == script.scenes.items
Duration == script.duration_seconds

TitleValid == script.title.t = "string" /\ script.title.s # ""
DurationValid == Duration.t = "number" /\ Duration.n > 0
ScenesNonEmpty == script.scenes.isArray /\ Len(Items) >= 1
TimesNumeric(k) == Items[k].start.t = "number" /\ Items[k].end.t = "number"
TimingValid(k) ==
  /\ TimesNumeric(k)
  /\ 0 <= Items[k].start.n
  /\ Items[k].start.n < Items[k].end.n
  /\ Items[k].end.n <= Duration.n
FieldsValid(k) ==
  /\ Items[k].voice.t = "string" /\ Items[k].voice.s # ""
  /\ Items[k].overlay.t = "string" /\ Items[k].overlay.s # ""
SceneValid(k) == TimingValid(k) /\ FieldsValid(k)
\* Scene k (1-based, k >= 2) starts before the scene stored before it ends.
PairOverlaps(k) == Items[k].start.n < Items[k - 1].end.n
HeaderValid == TitleValid /\ DurationValid /\ ScenesNonEmpty
AllScenesValid == \A k \in 1..Len(Items) : SceneValid(k)
ScriptInvariants ==
  /\ HeaderValid
  /\ AllScenesValid
  /\ \A k \in 2..Len(Items) : ~PairOverlaps(k)

\* C2: every script that satisfies all Script invariants is accepted by
\* validate (it returns without error).
C2_ValidAccepted == (Validated /\ ScriptInvariants) => verdict = Ok

\* A two-scene script whose second scene starts where the first ends was
\* validated and accepted.
C2_Witness ==
  /\ verdict = Ok
  /\ Len(Items) = 2
  /\ Items[2].start.n = Items[1].end.n
  /\ Items[2].end.n = Duration.n

\* C3: validate accepts only scripts that satisfy the Script invariants.
C3_AcceptedValid == verdict = Ok => ScriptInvariants

\* A script of three scenes filling its whole duration was accepted.
C3_Witness ==
  /\ verdict = Ok
  /\ Len(Items) = 3
  /\ Items[1].start.n = 0
  /\ Items[3].end.n = Duration.n

\* The error scene k (1-based) deserves: numbers, then timing, then voice,
\* then overlay.
SceneFault(k) ==
  IF ~TimesNumeric(k) THEN SceneNotNumbers(k - 1)
  ELSE IF ~TimingValid(k) THEN InvalidSceneTiming(k - 1)
  ELSE IF ~(Items[k].voice.t = "string" /\ Items[k].voice.s # "") THEN SceneVoice(k - 1)
  ELSE SceneOverlay(k - 1)
Offending == {k \in 1..Len(Items) : ~SceneValid(k)}
Overlapping == {k \in 2..Len(Items) : PairOverlaps(k)}
Lowest(S) == CHOOSE k \in S : \A j \in S : k <= j
ViolationCount ==
  Cardinality({c \in {"title", "duration", "scenes"} :
     \/ c = "title" /\ ~TitleValid
     \/ c = "duration" /\ ~DurationValid
     \/ c = "scenes" /\ ~ScenesNonEmpty})
  + Cardinality(Offending)
  + (IF AllScenesValid THEN Cardinality(Overlapping) ELSE 0)

\* C4: validate reports the earliest violated check in the fixed order title,
\* duration_seconds, non-empty scenes, the per-scene checks at the lowest
\* offending scene index, and only then the lowest overlapping index.
C4_FirstViolation ==
  Validated =>
    IF ~TitleValid THEN verdict = MissingTitle
    ELSE IF ~DurationValid THEN verdict = InvalidDuration
    ELSE IF ~ScenesNonEmpty THEN verdict = EmptySceneList
    ELSE IF Offending # {}
      THEN verdict = SceneFault(Lowest(Offending))
    ELSE IF Overlapping # {} THEN verdict = SceneOverlap(Lowest(Overlapping) - 1)
    ELSE verdict = Ok

\* A script with a bad title, a bad duration and an offending scene at once
\* was validated.
C4_Witness ==
  /\ Validated
  /\ ~TitleValid /\ ~DurationValid /\ Offending # {}
  /\ ViolationCount >= 3

\* C5 as stated: every consecutive pair with scenes[i].start <
\* scenes[i-1].end makes validate fail with SceneOverlap(i).
C5_Original ==
  Validated =>
    \A k \in 2..Len(Items) :
      (TimesNumeric(k) /\ TimesNumeric(k - 1) /\ PairOverlaps(k))
        => verdict = SceneOverlap(k - 1)

\* C5 amended: when the title, the duration, the scene list and every single
\* scene pass, the lowest index i with scenes[i].start < scenes[i-1].end is
\* reported as SceneOverlap(i); a pair with start equal to the previous end is
\* never reported as an overlap and does not make validate fail.
C5_LowestOverlap ==
  Validated =>
    /\ (HeaderValid /\ AllScenesValid /\ Overlapping # {})
         => verdict = SceneOverlap(Lowest(Overlapping) - 1)
    /\ \A k \in 2..Len(Items) :
         verdict = SceneOverlap(k - 1) => Items[k].start.n # Items[k - 1].end.n
    /\ (HeaderValid /\ AllScenesValid
        /\ \A k \in 2..Len(Items) : Items[k].start.n >= Items[k - 1].end.n)
         => verdict = Ok

\* Three valid scenes, the first two touching and the third overlapping the
\* second, were reported as an overlap at index 2.
C5_Witness ==
  /\ Len(Items) = 3
  /\ AllScenesValid
  /\ Items[2].start.n = Items[1].end.n
  /\ PairOverlaps(3)
  /\ verdict = SceneOverlap(2)

\* C6 as stated: a scene with start >= end makes validate fail with
\* InvalidSceneTiming at that scene's index.
C6_Original ==
  Validated =>
    \A k \in 1..Len(Items) :
      (TimesNumeric(k) /\ Items[k].start.n >= Items[k].end.n)
        => verdict = InvalidSceneTiming(k - 1)

\* C6 amended: when the title, the duration and the scene list pass and every
\* earlier scene passes its own checks, a scene with numeric start >= end, or
\* with end > duration_seconds, fails with InvalidSceneTiming at its index,
\* and a scene whose end equals duration_seconds (with 0 <= start < end) is
\* not rejected for its timing.
C6_SceneTiming ==
  Validated =>
    \A k \in 1..Len(Items) :
      (HeaderValid /\ TimesNumeric(k) /\ \A j \in 1..(k - 1) : SceneValid(j)) =>
        /\ Items[k].start.n >= Items[k].end.n => verdict = InvalidSceneTiming(k - 1)
        /\ Items[k].end.n > Duration.n => verdict = InvalidSceneTiming(k - 1)
        /\ (Items[k].end.n = Duration.n /\ 0 <= Items[k].start.n
            /\ Items[k].start.n < Items[k].end.n)
             => verdict # InvalidSceneTiming(k - 1)

\* After a valid first scene, a second scene with start = end was rejected for
\* its timing at index 1.
C6_Witness ==
  /\ Len(Items) >= 2
  /\ SceneValid(1)
  /\ Items[2].start.n = Items[2].end.n
  /\ verdict = InvalidSceneTiming(1)

\* C7 as stated: a script with duration_seconds <= 0 always fails with
\* InvalidDuration.
C7_Original ==
  (Validated /\ Duration.t = "number" /\ Duration.n <= 0) => verdict = InvalidDuration

\* C7 amended: a script whose title is a non-empty string and whose
\* duration_seconds is <= 0 fails with InvalidDuration, whatever its scenes.
C7_InvalidDuration ==
  (Validated /\ TitleValid /\ Duration.t = "number" /\ Duration.n <= 0)
    => verdict = InvalidDuration

\* A titled script of duration 0 with two malformed scenes failed on its
\* duration.
C7_Witness ==
  /\ TitleValid
  /\ Duration = Num(0)
  /\ Len(Items) = 2
  /\ Offending = {1, 2}
  /\ verdict = InvalidDuration

\* C8 as stated: a script whose scene sequence is empty always fails with
\* EmptySceneList.
C8_Original ==
  (Validated /\ script.scenes.isArray /\ Len(Items) = 0) => verdict = EmptySceneList

\* C8 amended: a script whose title and duration_seconds pass their checks
\* and whose scene sequence is empty fails with EmptySceneList.
C8_EmptySceneList ==
  (Validated /\ TitleValid /\ DurationValid /\ script.scenes.isArray /\ Len(Items) = 0)
    => verdict = EmptySceneList

\* A titled script of positive duration with an empty scene array failed with
\* EmptySceneList.
C8_Witness ==
  /\ TitleValid /\ DurationValid
  /\ script.scenes.isArray /\ Len(Items) = 0
  /\ verdict = EmptySceneList

(***************************************************************************)
(* The duration pattern, stated on its own.                                *)
(***************************************************************************)
Extracted == audioDuration # Unset
Text == audioDurationResult
\* "Duration: ", then n >= 1 digits or dots, then " seconds", from position p.
PatternAt(p, n) ==
  /\ n >= 1
  /\ HasAt(Text, p, DurationPrefix)
  /\ p + Len(DurationPrefix) + n - 1 <= Len(Text)
  /\ \A j \in 0..(n - 1) : Text[p + Len(DurationPrefix) + j] \in NumChars
  /\ HasAt(Text, p + Len(DurationPrefix) + n, SecondsSuffix)
Patterns == {pn \in (1..Len(Text)) \X (1..Len(Text)) : PatternAt(pn[1], pn[2])}
FirstPattern == CHOOSE pn \in Patterns : \A other \in Patterns : pn[1] <= other[1]
NumberPart ==
  SubSeq(Text, FirstPattern[1] + Len(DurationPrefix),
         FirstPattern[1] + Len(DurationPrefix) + FirstPattern[2] - 1)
\* A decimal numeral: digits with at most one dot among them.
IsNumeral(str) ==
  /\ \E j \in 1..Len(str) : str[j] \in Digits
  /\ Cardinality({j \in 1..Len(str) : str[j] = "."}) <= 1
DotAt(str) == CHOOSE j \in 1..Len(str) : str[j] = "."
NumeralValue(str) ==
  IF \A j \in 1..Len(str) : str[j] \in Digits THEN Normal(DigitsValue(str, 0), 0)
  ELSE Normal(DigitsValue(SubSeq(str, 1, DotAt(str) - 1)
                          \o SubSeq(str, DotAt(str) + 1, Len(str)), 0),
              Len(str) - DotAt(str))

\* C9: when the probe output contains "Duration: <number> seconds" the derived
\* duration is that number; when the pattern is absent or its number part is
\* no number, the derived duration is exactly the 30.0 default, never
\* not-a-number.
C9_DurationOrDefault ==
  Extracted =>
    /\ ~audioDuration.nan
    /\ IF Patterns # {} /\ IsNumeral(NumberPart)
         THEN audioDuration = NumeralValue(NumberPart)
         ELSE audioDuration = DefaultDuration

(***************************************************************************)
(* The full run and the executor.                                          *)
(***************************************************************************)
GenerateSucceeded == verdict = Ok /\ scriptFile = script
\* The run stopped while reading its configuration, before the first stage.
StoppedBeforeStages == Full /\ pc = "failed" /\ verdict = Pending
\* The error of the stage the full run stopped at.
StageError ==
  IF verdict # Ok THEN verdict
  ELSE IF ~GenerateSucceeded THEN SaveError
  ELSE IF results[Len(results)].state = "resolved" THEN PathTypeError
  ELSE results[Len(results)].error

\* C1: in runFull the stages run strictly in the order generate, synth,
\* prepare-video (probe, then preparation), assemble; a stage starts only
\* after every earlier one completed successfully; after a stage failed no
\* later stage or worker is started and runFull fails with that stage's error.
\* A run that stops before its first stage, on a configuration it cannot
\* read, has started no stage and no worker.
C1_StagesInOrder ==
  Full =>
    /\ Len(calls) <= Len(WorkerOrder)
    /\ \A i \in 1..Len(calls) : calls[i].script = WorkerOrder[i]
    /\ calls # <<>> => GenerateSucceeded
    /\ \A i \in 1..(Len(calls) - 1) : Len(results) >= i /\ results[i].state = "resolved"
    /\ \A i \in 1..Len(results) : results[i].state = "rejected" => Len(calls) = i
    /\ (verdict \notin {Ok, Pending}) => (calls = <<>> /\ pc = "failed")
    /\ pc = "failed" =>
         IF StoppedBeforeStages
           THEN calls = <<>> /\ scriptFile = NoScript /\ outcome = Reject(ConfigFault)
           ELSE outcome = Reject(StageError)
    /\ pc = "done" =>
         /\ outcome.state = "resolved"
         /\ Len(results) = Len(WorkerOrder)
         /\ \A i \in 1..Len(results) : results[i].state = "resolved"

\* A full run whose video-preparation worker failed after synth and probe
\* succeeded has ended: the assembly worker was never started.
C1_Witness ==
  /\ Full
  /\ exit = "1"
  /\ Len(calls) = 3
  /\ results[3].state = "rejected"
  /\ outcome.error = ExitError(Flatten(procErr))

\* The call in flight ended with 'close' after the worker ran.
ClosedWith(code) == proc.state = "closed" /\ proc.code = code
NonZeroCodes == {code \in ExitCodes : TypeOf(code) = "number" /\ code.n # 0}

\* C10 as stated: exit code 0 resolves with the trimmed standard output; a
\* non-zero exit code fails with an error that carries the exit code and the
\* captured standard-error text.
C10_Original ==
  /\ ClosedWith(Num(0)) => promise = Resolve(Trim(Flatten(procOut)))
  /\ \A code \in NonZeroCodes :
       ClosedWith(code) =>
         /\ promise.state = "rejected"
         /\ promise.error.detail = Flatten(procErr)
         /\ "code" \in DOMAIN promise.error
         /\ promise.error.code = code

\* C10 amended: exit code 0 resolves with all standard-output chunks, in
\* arrival order, trimmed; a non-zero exit code never resolves and fails with
\* an Error whose message is "Python script failed: " followed by all
\* standard-error chunks in arrival order; the exit code is only logged and
\* is not carried by the error.
C10_SettlesFromExit ==
  /\ ClosedWith(Num(0)) => promise = Resolve(Trim(Flatten(procOut)))
  /\ \A code \in NonZeroCodes :
       ClosedWith(code) => promise = Reject(ExitError(Flatten(procErr)))

\* A worker that wrote two different chunks to standard error and one to
\* standard output exited with code 2 and the call was rejected.
C10_Witness ==
  /\ ClosedWith(Num(2))
  /\ procErr = <<<<"E">>, <<"r">>>>
  /\ Len(procOut) = 1
  /\ promise.state = "rejected"

\* The worker of the call in flight could not be spawned: 'error' has been
\* emitted, and 'close' with the negated errno may have followed.
SpawnFailed == proc.state = "errored" \/ ClosedWith(SpawnFailureCode)

\* C11: when the worker cannot be spawned, execute fails with the spawn
\* error itself, which is no exit error, whether or not 'close' has been
\* delivered after 'error' and whether the caller resumed before or after
\* it; a spawn failure is never reported as an exit error nor as success.
C11_SpawnFailure ==
  SpawnFailed =>
    /\ promise = Reject(SpawnError(calls[Len(calls)]))
    /\ results[Len(results)] =
         [state |-> "rejected", error |-> SpawnError(calls[Len(calls)])]
    /\ \A text \in {<<>>, stderr} : promise.error # ExitError(text)
    /\ promise.error.msg # ExitError(stderr).msg
    /\ pc \in {"done", "failed"} => outcome = Reject(SpawnError(calls[Len(calls)]))

\* After a failed spawn 'close' was delivered with the negated errno before
\* the caller resumed, and the call stays rejected with the spawn error.
C11_Witness ==
  /\ ClosedWith(SpawnFailureCode)
  /\ Len(calls) = 2
  /\ pc \notin {"done", "failed"}
  /\ promise = Reject(SpawnError(calls[Len(calls)]))

\* The names runStep's switch has a case for (lines 81, 90, 96, 105).
HandledSteps == {"generate", "synth", "prepare-video", "assemble"}

\* runStep was entered with a name it has no case for.
UnknownStepRun == argv.step # "" /\ argv.step \notin HandledSteps /\ pc # "main"

\* No stage work has been started: nothing validated, nothing written, no
\* worker spawned.
NoStageWork ==
  /\ verdict = Pending
  /\ scriptFile = NoScript
  /\ calls = <<>>
  /\ proc = NoProc
  /\ promise = NoPromise

\* C14: runStep with a name it has no case for fails with the unknown-step
\* error, whose message names the step given and then lists exactly
\* generate, synth, prepare-video, assemble (the handled names, each once);
\* no stage work is started and no worker is invoked.
C14_UnknownStage ==
  UnknownStepRun =>
    /\ pc = "failed"
    /\ outcome = Reject(UnknownStep(argv.step))
    /\ outcome.error.detail = <<argv.step, "generate", "synth", "prepare-video", "assemble">>
    /\ {AvailableSteps[i] : i \in DOMAIN AvailableSteps} = HandledSteps
    /\ Len(AvailableSteps) = Cardinality(HandledSteps)
    /\ NoStageWork

\* The unknown step was rejected and the process has ended with code 1.
C14_Witness ==
  /\ UnknownStepRun
  /\ outcome = Reject(UnknownStep("unknown"))
  /\ exit = "1"

\* The errors a worker call can fail with: the spawn error, or the exit
\* error with the standard-error text captured.
\* The errors a worker call fails with: the exit errors, one for each text
\* the worker can leave on standard error, and the spawn error of the call.
ExitErrors ==
  {ExitError(Flatten(chunks)) : chunks \in ArraysUpTo(StderrChunks, MaxChunks)}
WorkerErrors(call) == {SpawnError(call)} \cup ExitErrors
\* The call the prepare-video step issues.
PrepareStepCall ==
  [script |-> "prepare_video.py",
   args |-> PrepareArgs(argv.inputVideo, "background.mp4", Normal(30, 0))]

\* runStep was entered for the prepare-video step.
PrepareStepRun == argv.step = "prepare-video" /\ pc # "main"

\* C15: the prepare-video step without an input video fails with the
\* input-video-required error before any worker is invoked, and that error
\* is none a worker call fails with; with an input video the step invokes
\* the video-preparation worker (and nothing else).
C15_PrepareVideoStep ==
  PrepareStepRun =>
    IF argv.inputVideo = ""
      THEN /\ pc = "failed"
           /\ outcome = Reject(MissingInputVideo)
           /\ calls = <<>> /\ results = <<>> /\ proc = NoProc
           /\ MissingInputVideo \notin WorkerErrors(PrepareStepCall)
           /\ \A error \in WorkerErrors(PrepareStepCall) :
                error.msg # MissingInputVideo.msg
      ELSE /\ calls = <<PrepareStepCall>>
           /\ outcome # Reject(MissingInputVideo)
           /\ outcome.state = "rejected" => outcome.error \in WorkerErrors(PrepareStepCall)

\* The step was run without an input video and the process ended.
C15_Witness ==
  /\ PrepareStepRun
  /\ argv.inputVideo = ""
  /\ outcome = Reject(MissingInputVideo)
  /\ exit = "1"

\* The workers the requested run invokes when nothing fails, in order.
RequestedWorkers ==
  CASE argv.step = "" -> WorkerOrder
    [] argv.step = "synth" -> <<"synth.py">>
    [] argv.step = "prepare-video" -> <<"prepare_video.py">>
    [] argv.step = "assemble" -> <<"assemble.py">>
    [] OTHER -> <<>>

Rejections == {i \in DOMAIN results : results[i].state = "rejected"}
ValidationFailed == verdict \notin {Pending, Ok}

\* The requested run went through every one of its steps.
Completed ==
  /\ argv.step \in {""} \cup HandledSteps
  /\ argv.step \in {"", "generate"} => GenerateSucceeded
  /\ [i \in DOMAIN calls |-> calls[i].script] = RequestedWorkers
  /\ Len(results) = Len(calls)
  /\ Rejections = {}

\* C16: validation and worker errors are neither retried nor swallowed:
\* each worker is invoked at most once in a run and only as the requested
\* run prescribes; after such an error nothing more is started and main
\* receives that very error; the process ends with code 1 after any failure
\* and with code 0 only when the requested run completed every step.
C16_ErrorsReachMain ==
  /\ \A i, j \in DOMAIN calls : calls[i].script = calls[j].script => i = j
  /\ \E n \in 0..Len(RequestedWorkers) :
       [i \in DOMAIN calls |-> calls[i].script] = SubSeq(RequestedWorkers, 1, n)
  /\ ValidationFailed =>
       /\ pc = "failed" /\ outcome = Reject(verdict)
       /\ calls = <<>> /\ scriptFile = NoScript
  /\ \A i \in Rejections :
       /\ i = Len(calls) /\ i = Len(results)
       /\ pc # "done"
       /\ pc = "failed" => outcome = Reject(results[i].error)
  /\ exit # "running" => (exit = "0" <=> Completed)
  /\ exit # "running" => (exit = "1" <=> outcome.state = "rejected")
  /\ exit \in {"running", "0", "1"}

\* A worker of the full run failed after earlier stages succeeded, and the
\* process ended with code 1 with that worker's error.
C16_Witness ==
  /\ Full /\ exit = "1"
  /\ Len(calls) = 3
  /\ Rejections = {3}
  /\ outcome = Reject(ExitError(<<"E", "r">>))

\* No worker of the run is in flight: none was spawned yet, or the last one
\* has closed and its call has resolved.
NoWorkerInFlight ==
  /\ proc.state \in {"none", "closed"}
  /\ promise.state \in {"none", "resolved"}

\* C18: in a run at most one worker is in flight: whenever a worker is
\* spawned, the previous worker (if any) has closed and its execute call
\* has settled, so no two worker invocations overlap.
C18_OneWorkerInFlight ==
  [][calls' # calls =>
       /\ NoWorkerInFlight
       /\ Len(results) = Len(calls)
       /\ Len(calls') = Len(calls) + 1]_vars

\* The fourth worker of a full run is running, the three before it having
\* closed and settled one after the other.
C18_Witness ==
  /\ Full
  /\ Len(calls) = 4 /\ Len(results) = 3
  /\ proc.state = "running"
  /\ promise = PendingPromise

\* C17: when a stage of the run fails, the files earlier stages produced
\* (script, audio, background video) stay as they are: neither the step
\* that throws nor anything after it deletes or rewrites an output file.
C17_FailureKeepsOutputs ==
  [][pc' = "failed" => scriptFile' = scriptFile /\ outputs' = outputs]_vars

\* The assembly stage of a full run failed; the script, the audio and the
\* background video of the earlier stages are in place, no final video.
C17_Witness ==
  /\ Full /\ pc = "failed"
  /\ Len(calls) = 4
  /\ scriptFile = script
  /\ outputs = [NoOutputs EXCEPT !["speech_all.wav"] = 1, !["background.mp4"] = 3]

\* The four stages of the full run, and the stage each worker belongs to
\* (runFullPipeline's "Step 3" runs the probe and the preparation).
Stages == {"generate", "synth", "prepare-video", "assemble"}
StageOf(name) ==
  CASE name = "synth.py" -> "synth"
    [] name = "audio_utils.py" -> "prepare-video"
    [] name = "prepare_video.py" -> "prepare-video"
    [] name = "assemble.py" -> "assemble"

\* The stage a failed full run stopped at.
FailedStage ==
  IF ~GenerateSucceeded THEN "generate" ELSE StageOf(calls[Len(calls)].script)

\* The errors the generate stage can fail with.
GenerateErrors ==
  ({validateScript(example) : example \in ExampleScripts} \ {Ok}) \cup {SaveError}

\* The error is a spawn error: it holds the argument list of a call.
IsSpawnError(error) == "spawnargs" \in DOMAIN error

\* A failure of the stage can surface this error: the generate stage its
\* validation and save errors; a worker stage an exit error with whatever
\* its worker wrote to standard error, the spawn error of a call of its
\* own, and (prepare-video only) the TypeError of an undefined input video.
CanFailWith(stage, error) ==
  IF stage = "generate" THEN error \in GenerateErrors
  ELSE \/ error \in ExitErrors
       \/ /\ IsSpawnError(error)
          /\ error = SpawnError(error.spawnargs)
          /\ error.spawnargs.script \in {"synth.py", "audio_utils.py",
                                         "prepare_video.py", "assemble.py"}
          /\ StageOf(error.spawnargs.script) = stage
       \/ stage = "prepare-video" /\ error = PathTypeError

FullRunFailed == Full /\ pc = "failed"

\* C19 as stated: the failure a full run surfaces identifies which of the
\* four stages failed: no other stage can fail with the same error.
C19_Original ==
  FullRunFailed /\ ~StoppedBeforeStages =>
    \A stage \in Stages \ {FailedStage} : ~CanFailWith(stage, outcome.error)

\* C19: a full run completes all stages, or stops before its first stage
\* with the TypeError of reading a configuration that is null or lacks a
\* section, or fails with the unchanged error of the stage it stopped at (the
\* reason).  The error tells a failure of the generate stage from a failure
\* of a worker stage.  Of a worker stage, a spawn error holds the argument
\* list of the failed call and so names the worker and its stage; the
\* TypeError of an undefined input video arises in the prepare-video stage
\* only, after synth and probe succeeded; an exit error holds the text the
\* worker wrote to standard error and nothing else, and any worker stage can
\* fail with it.
C19_FailureReason ==
  /\ Full /\ pc = "done" => Completed
  /\ StoppedBeforeStages =>
       /\ ConfigFault # Ok
       /\ outcome = Reject(ConfigFault)
       /\ \A stage \in Stages : ~CanFailWith(stage, outcome.error)
       /\ calls = <<>> /\ scriptFile = NoScript
  /\ FullRunFailed /\ ~StoppedBeforeStages =>
       /\ outcome = Reject(StageError)
       /\ CanFailWith(FailedStage, outcome.error)
       /\ (FailedStage = "generate") = (calls = <<>>)
       /\ (FailedStage = "generate") = (outcome.error \in GenerateErrors)
       /\ FailedStage # "generate" =>
            \/ /\ Len(results) = Len(calls)
               /\ results[Len(results)].state = "rejected"
               /\ outcome.error = ExitError(Flatten(procErr))
               /\ DOMAIN outcome.error = {"msg", "index", "detail"}
               /\ \A stage \in Stages \ {"generate"} : CanFailWith(stage, outcome.error)
            \/ /\ Len(results) = Len(calls)
               /\ results[Len(results)].state = "rejected"
               /\ outcome.error = SpawnError(calls[Len(calls)])
               /\ StageOf(outcome.error.spawnargs.script) = FailedStage
               /\ \A stage \in Stages \ {FailedStage} : ~CanFailWith(stage, outcome.error)
            \/ /\ outcome.error = PathTypeError
               /\ FailedStage = "prepare-video"
               /\ argv.inputVideo = "" /\ config.background_video = ""
               /\ Len(calls) = 2 /\ Len(results) = 2
               /\ \A i \in 1..2 : results[i].state = "resolved"
               /\ \A stage \in Stages \ {FailedStage} : ~CanFailWith(stage, outcome.error)

\* The synth stage failed with an exit error that an assembly failure would
\* give as well.
C19_Witness ==
  /\ FullRunFailed
  /\ FailedStage = "synth"
  /\ outcome = Reject(ExitError(<<"E">>))

(***************************************************************************)
(* The configuration loader's contract.                                    *)
(***************************************************************************)
\* C12: a load returns the very instance the call before it returned, be
\* that call a load (two loads with no reload between them, however the
\* first obtained its configuration) or a reload (a load after a reload
\* returns the instance the reload returned).
C12_Memoized ==
  \A i \in 2..Len(loads) :
    loads[i].op = "load" => loads[i].value = loads[i - 1].value

\* C13: whatever the candidate files hold, every load returns a complete
\* configuration: an object with every section and its background video,
\* never null.
C13_AlwaysComplete ==
  \A i \in DOMAIN loads :
    /\ loads[i].value # JsNull
    /\ loads[i].value.sections = Sections
    /\ loads[i].value.background_video # ""

(***************************************************************************)
(* Two runs on one output directory.                                       *)
(***************************************************************************)
\* main lines 126-137, for a run of the two.
RunExitCode(r) ==
  CASE runAt[r].pc = "done" -> "0"
    [] runAt[r].pc = "failed" -> "1"
    [] OTHER -> "running"

\* What a run's synth or assemble worker read that the other run had
\* written.
ForeignInputs(r) ==
  {record \in consumed[r] :
     /\ record.worker \in {"synth.py", "assemble.py"}
     /\ record.writer \in Runs \ {r}}

\* C20: nothing guards the output directory: a run that has not ended can
\* always take its next step, whatever the other run is doing, and every
\* file a worker reads under a fixed name is simply what was last written
\* there, by either run.
C20_NoLocking ==
  \A r \in Runs :
    /\ RunExitCode(r) = "running" => ENABLED RunNext(r)
    /\ \A record \in consumed[r] : record.writer \in Runs

\* Both runs ended with code 0, and the synth worker of one read the script
\* and its assembly worker the audio that the other run had written.
C20_Witness ==
  /\ \A r \in Runs : RunExitCode(r) = "0"
  /\ \E r \in Runs :
       /\ [worker |-> "synth.py", file |-> "script.json", writer |-> CHOOSE o \in Runs : o # r]
            \in ForeignInputs(r)
       /\ \E record \in ForeignInputs(r) :
            record.worker = "assemble.py" /\ record.file = "speech_all.wav"

(***************************************************************************)
(* The invocations of the full run and of the single steps.                *)
(***************************************************************************)
\* The source video of the full run: the override when one is given, else
\* the configured default background video.
SourceVideo ==
  IF argv.inputVideo # "" THEN argv.inputVideo ELSE config.background_video

CallOf(name, args) == [script |-> name, args |-> args]

\* C21: in the full run the duration probe is invoked after the synth
\* worker succeeded and before the video-preparation worker, and the
\* video-preparation worker is invoked with exactly the duration the probe
\* output stands for (or the 30.0 default) and with the override as source
\* video when one is given, else the configured default.
C21_ProbeThenPrepare ==
  Full =>
    /\ Len(calls) >= 2 =>
         /\ calls[1].script = "synth.py"
         /\ results[1].state = "resolved"
         /\ calls[2] = CallOf("audio_utils.py", ProbeArgs)
    /\ Len(calls) >= 3 =>
         /\ results[2].state = "resolved"
         /\ calls[3] = CallOf("prepare_video.py",
                             PrepareArgs(SourceVideo, "background.mp4",
                                         IF Patterns # {} /\ IsNumeral(NumberPart)
                                         THEN NumeralValue(NumberPart)
                                         ELSE DefaultDuration))

\* A single step was requested and runStep has a case for it.
StepRun == ~Full /\ argv.step \in HandledSteps

\* The input and output arguments of the invocation the full run issues
\* for a stage (lines 42, 54, 59); the video preparation takes the source
\* video and the output name, its duration being derived in the full run
\* only.
SameAsFullRun(call) ==
  CASE argv.step = "synth" -> call = CallOf("synth.py", SynthArgs)
    [] argv.step = "assemble" -> call = CallOf("assemble.py", AssembleArgs)
    [] argv.step = "prepare-video" ->
         /\ call.script = "prepare_video.py"
         /\ SubSeq(call.args, 1, 2) = <<Resolved(argv.inputVideo), InOutput("background.mp4")>>
    [] OTHER -> FALSE

\* A single step does the work of its own stage only.
OnlyOwnStage ==
  /\ Len(calls) <= 1
  /\ argv.step = "generate" => calls = <<>>
  /\ argv.step # "generate" => verdict = Pending /\ scriptFile = NoScript
  /\ \A i \in DOMAIN calls : calls[i].script = RequestedWorkers[i]

\* C22: a single step runs exactly its one stage, doing no other stage's
\* work, and the worker invocation it issues has the stage's inputs and
\* outputs, the same as the full run's invocation for that stage (the synth
\* step passes the script file and the audio file as the full run does).
C22_StepAsFullRun ==
  StepRun =>
    /\ OnlyOwnStage
    /\ \A i \in DOMAIN calls : SameAsFullRun(calls[i])

\* The scripts of the catalog that validateScript accepts.
ValidExamples == {example \in ExampleScripts : validateScript(example) = Ok}

\* C23: the script is validated before it is persisted: a script that fails
\* validation is never written to the script file and ends the run before
\* any worker is invoked; whenever the synth worker has been invoked in a
\* full run, the script file holds the script that passed validation in
\* this run.
C23_ValidatedBeforeSaved ==
  /\ ValidationFailed =>
       /\ scriptFile = NoScript
       /\ calls = <<>>
       /\ pc = "failed"
  /\ scriptFile # NoScript =>
       /\ verdict = Ok
       /\ scriptFile = script
       /\ scriptFile \in ValidExamples
  /\ Full /\ calls # <<>> =>
       /\ calls[1].script = "synth.py"
       /\ verdict = Ok
       /\ scriptFile # NoScript
       /\ scriptFile = script

\* The synth worker of a full run is running on the saved, validated script.
C23_Witness ==
  /\ Full
  /\ Len(calls) = 1 /\ calls[1].script = "synth.py"
  /\ proc.state = "running"
  /\ scriptFile = ScenarioValid

====
